---- MODULE Spec2Model ----
(***************************************************************************)
(* Emergency Route Finder & Alerter (app.py).                              *)
(*                                                                         *)
(* One script run per button press: geocode the location, query the       *)
(* facilities of the category around it, pick the nearest one, ask the     *)
(* routing service for a driving route, draw the map and place a call.     *)
(*                                                                         *)
(* Conventions.  Python None is the empty tuple <<>>; an optional value    *)
(* is <<>> or <<v>>.  A coordinate is <<lat, lon>>; a geometry carries x   *)
(* (longitude) and y (latitude) as shapely does.  An environment variable  *)
(* is modelled by its truthiness (None and "" are both falsy).  The        *)
(* external services (geocoder, feature query, routing, telephony) answer  *)
(* nondeterministically: they return a value or throw.                     *)
(***************************************************************************)
EXTENDS Integers, Sequences, FiniteSets, TLC

\* ------------------------------------------------------------------ bounds
\* longest result set of the feature query (function-level specification)
MaxFeatures == 3
\* longest upstream polyline of the routing service (function-level)
MaxRoute == 3
\* longest result set / polyline inside a full pipeline run
MaxRunFeatures == 1
MaxRunRoute == 1

\* --------------------------------------------------------------- constants
\* dist=5000 of the feature query
SearchRadius == 5000

None == <<>>
NaN == "NaN"

Categories == {"Medical", "Fire", "Police"}

tag_mapping ==
    [Medical |-> [amenity |-> "hospital"],
     Fire    |-> [amenity |-> "fire_station"],
     Police  |-> [amenity |-> "police"]]

icon_map ==
    [Medical |-> "hospital", Fire |-> "fire-extinguisher", Police |-> "building-shield"]

\* ------------------------------------------------------------ input domains
\* text of the location box: empty, or the pre-filled default
SourceNames == {"", "RV College of Engineering"}
\* coordinates the geocoder may answer with, <<lat, lon>>
Origins == {<<0, 5>>, <<1, 5>>}
GeomTypes == {"Point", "Polygon", "MultiPolygon", "LineString"}
FacilityNames == {"Apollo"}
\* one row of the GeoDataFrame: geometry type, the geometry's own point
\* (Point) or its centroid (Polygon, MultiPolygon) as x = lon, y = lat, and
\* the cell of the "name" column (NaN when the feature carries no name)
Rows ==
    [geom_type : GeomTypes, x : {5}, y : {0, 2}, name : FacilityNames \cup {NaN}]
\* upstream polyline points, <<lon, lat>>
LonLats == {<<5, 0>>, <<6, 2>>}
Durations == {120}
Distances == {1500}

SeqsUpTo(S, n) == UNION {[1..k -> S] : k \in 0..n}

\* what the routing service may answer: it throws, or returns a route
OrsResponses(n) ==
    {[throws |-> TRUE, coordinates |-> <<>>, duration |-> 0, distance |-> 0]}
    \cup [throws : {FALSE}, coordinates : SeqsUpTo(LonLats, n),
          duration : Durations, distance : Distances]

\* ----------------------------------------------------------- pure functions
\* geopy geodesic(a, b).meters on the model's grid: the squared planar
\* distance, which orders the grid points as the metric distance does
geodesic(a, b) ==
    (a[1] - b[1]) * (a[1] - b[1]) + (a[2] - b[2]) * (a[2] - b[2])

\* the GeoDataFrame has a "name" column iff some returned feature has a name
HasNameColumn(services) ==
    \E i \in 1..Len(services) : services[i].name # NaN

\* pandas Series.get("name", default): the default is returned only when the
\* row has no "name" label at all, i.e. the frame has no such column;
\* otherwise the cell is returned, NaN included
row_get_name(services, row, default) ==
    IF HasNameColumn(services) THEN row.name ELSE default

UnnamedLabel(emergency_type) ==
    CASE emergency_type = "Medical" -> "Unnamed Medical"
      [] emergency_type = "Fire"    -> "Unnamed Fire"
      [] emergency_type = "Police"  -> "Unnamed Police"

\* Step 3: the loop over services.iterrows(), from row i on, appending to
\* the two parallel lists
RECURSIVE iterrows(_, _, _, _)
iterrows(services, i, emergency_type, acc) ==
    IF i > Len(services) THEN acc
    ELSE LET row  == services[i]
             geom == row
             name == row_get_name(services, row, UnnamedLabel(emergency_type))
         IN  IF geom.geom_type = "Point"
             THEN iterrows(services, i + 1, emergency_type,
                           [service_coords |-> Append(acc.service_coords, <<geom.y, geom.x>>),
                            service_names  |-> Append(acc.service_names, name)])
             ELSE IF geom.geom_type \in {"Polygon", "MultiPolygon"}
             THEN iterrows(services, i + 1, emergency_type,
                           [service_coords |-> Append(acc.service_coords, <<geom.y, geom.x>>),
                            service_names  |-> Append(acc.service_names, name)])
             ELSE iterrows(services, i + 1, emergency_type, acc)

\* min(distances) of a non-empty list
list_min(distances) ==
    CHOOSE d \in {distances[i] : i \in 1..Len(distances)} :
        \A i \in 1..Len(distances) : d <= distances[i]

\* list_index taking the last position holding v
list_index_last(distances, v) ==
    CHOOSE i \in 1..Len(distances) :
        /\ distances[i] = v
        /\ \A j \in (i + 1)..Len(distances) : distances[j] # v

\* list.index(v): the first position holding v
list_index(distances, v) ==
    CHOOSE i \in 1..Len(distances) :
        /\ distances[i] = v
        /\ \A j \in 1..(i - 1) : distances[j] # v

\* Step 4: distances.index(min(distances)); min() of an empty list raises
\* ValueError, reported here as index 0
min_idx_of(source_point, service_coords) ==
    LET distances == [k \in 1..Len(service_coords) |->
                          geodesic(source_point, service_coords[k])]
    IN  IF Len(distances) = 0 THEN 0
        ELSE list_index(distances, list_min(distances))

\* get_ors_route_coords without the api-key check of lines 63-65
get_ors_route_coords_nokeycheck(start, end, api_key, resp) ==
    LET request == [coordinates |-> << <<start[2], start[1]>>, <<end[2], end[1]>> >>,
                    profile |-> "driving-car", format |-> "geojson"]
    IN  IF resp.throws
        THEN [route_coords |-> <<>>, duration_sec |-> None, distance_m |-> None,
              ui |-> <<[level |-> "error", text |-> "OpenRouteService Exception"]>>,
              requests |-> <<request>>]
        ELSE [route_coords |-> [k \in 1..Len(resp.coordinates) |->
                                   <<resp.coordinates[k][2], resp.coordinates[k][1]>>],
              duration_sec |-> <<resp.duration>>,
              distance_m |-> <<resp.distance>>,
              ui |-> <<>>,
              requests |-> <<request>>]

\* get_ors_route_coords returning the upstream pairs as they came
get_ors_route_coords_noswap(start, end, api_key, resp) ==
    IF ~api_key
    THEN [route_coords |-> <<>>, duration_sec |-> None, distance_m |-> None,
          ui |-> <<[level |-> "error", text |-> "ORS key not configured"]>>,
          requests |-> <<>>]
    ELSE LET request == [coordinates |-> << <<start[2], start[1]>>, <<end[2], end[1]>> >>,
                         profile |-> "driving-car", format |-> "geojson"]
         IN  IF resp.throws
             THEN [route_coords |-> <<>>, duration_sec |-> None, distance_m |-> None,
                   ui |-> <<[level |-> "error", text |-> "OpenRouteService Exception"]>>,
                   requests |-> <<request>>]
             ELSE [route_coords |-> resp.coordinates,
                   duration_sec |-> <<resp.duration>>,
                   distance_m |-> <<resp.distance>>,
                   ui |-> <<>>,
                   requests |-> <<request>>]

\* get_ors_route_coords(start, end, api_key) against a routing service that
\* answers resp: the returned triple, the st.error messages it emits and the
\* requests it sends to the service
get_ors_route_coords(start, end, api_key, resp) ==
    IF ~api_key
    THEN [route_coords |-> <<>>, duration_sec |-> None, distance_m |-> None,
          ui |-> <<[level |-> "error", text |-> "ORS key not configured"]>>,
          requests |-> <<>>]
    ELSE LET request == [coordinates |-> << <<start[2], start[1]>>, <<end[2], end[1]>> >>,
                         profile |-> "driving-car", format |-> "geojson"]
         IN  IF resp.throws
             THEN [route_coords |-> <<>>, duration_sec |-> None, distance_m |-> None,
                   ui |-> <<[level |-> "error", text |-> "OpenRouteService Exception"]>>,
                   requests |-> <<request>>]
             ELSE [route_coords |-> [k \in 1..Len(resp.coordinates) |->
                                        <<resp.coordinates[k][2], resp.coordinates[k][1]>>],
                   duration_sec |-> <<resp.duration>>,
                   distance_m |-> <<resp.distance>>,
                   ui |-> <<>>,
                   requests |-> <<request>>]

\* make_emergency_call skipping the call only when no credential is set
make_emergency_call_any(cred, twilio_throws) ==
    IF ~(cred.sid \/ cred.token \/ cred.from \/ cred.to)
    THEN [ui |-> <<[level |-> "warning", text |-> "Twilio not configured. Skipping call."]>>,
          requests |-> 0, placed |-> 0, raised |-> FALSE]
    ELSE IF twilio_throws
    THEN [ui |-> <<[level |-> "error", text |-> "Twilio Call Exception"],
                   [level |-> "warning", text |-> "Please check your Twilio credentials"]>>,
          requests |-> 1, placed |-> 0, raised |-> FALSE]
    ELSE [ui |-> <<[level |-> "info", text |-> "Initiating emergency call"]>>,
          requests |-> 1, placed |-> 1, raised |-> FALSE]

\* make_emergency_call without the try/except of lines 46-59
make_emergency_call_notry(cred, twilio_throws) ==
    IF ~(cred.sid /\ cred.token /\ cred.from /\ cred.to)
    THEN [ui |-> <<[level |-> "warning", text |-> "Twilio not configured. Skipping call."]>>,
          requests |-> 0, placed |-> 0, raised |-> FALSE]
    ELSE IF twilio_throws
    THEN [ui |-> <<>>, requests |-> 1, placed |-> 0, raised |-> TRUE]
    ELSE [ui |-> <<[level |-> "info", text |-> "Initiating emergency call"]>>,
          requests |-> 1, placed |-> 1, raised |-> FALSE]

\* make_emergency_call() with the four credentials cred (truthiness each)
\* against a telephony service that accepts the call or throws
make_emergency_call(cred, twilio_throws) ==
    IF ~(cred.sid /\ cred.token /\ cred.from /\ cred.to)
    THEN [ui |-> <<[level |-> "warning", text |-> "Twilio not configured. Skipping call."]>>,
          requests |-> 0, placed |-> 0, raised |-> FALSE]
    ELSE IF twilio_throws
    THEN [ui |-> <<[level |-> "error", text |-> "Twilio Call Exception"],
                   [level |-> "warning", text |-> "Please check your Twilio credentials"]>>,
          requests |-> 1, placed |-> 0, raised |-> FALSE]
    ELSE [ui |-> <<[level |-> "info", text |-> "Initiating emergency call"]>>,
          requests |-> 1, placed |-> 1, raised |-> FALSE]

\* ------------------------------------------------------------------- state
VARIABLES
    TWILIO_ACCOUNT_SID, TWILIO_AUTH_TOKEN, TWILIO_PHONE_NUMBER,
    VERIFIED_RECIPIENT_NUMBER, ORS_API_KEY,   \* module-level configuration
    pc,              \* stage of the run: Idle, Geocoding, Locating, Routing,
                     \* Rendering, Alerting, Done, Failed
    failed_stage,    \* the stage a Failed run stopped in, or NoStage
    uncaught,        \* the exception that left find_and_map_route, if any
    source_name, emergency_type,              \* the two widgets
    source_point, feature_query, services,
    service_coords, service_names,
    nearest_coord, nearest_name,
    ors_requests,    \* requests sent to the routing service in this run
    ors_response,    \* what the routing service answered, or None
    route_coords, duration_sec, distance_m,
    map,             \* the map shown by st_folium, or None
    route_info,      \* the "Route Information" block, or None
    ui,              \* st.error / st.warning / st.info / st.success messages
    call_attempts,   \* invocations of make_emergency_call in this run
    call_requests,   \* client.calls.create requests in this run
    calls_placed     \* calls the telephony service accepted in this run

config == <<TWILIO_ACCOUNT_SID, TWILIO_AUTH_TOKEN, TWILIO_PHONE_NUMBER,
            VERIFIED_RECIPIENT_NUMBER, ORS_API_KEY>>
widgets == <<source_name, emergency_type>>
locate_vars == <<feature_query, services, service_coords, service_names,
                 nearest_coord, nearest_name>>
route_vars == <<ors_requests, ors_response, route_coords, duration_sec, distance_m>>
render_vars == <<map, route_info>>
call_vars == <<call_attempts, call_requests, calls_placed>>

vars == <<config, pc, failed_stage, uncaught, widgets, source_point,
          locate_vars, route_vars, render_vars, ui, call_vars>>

Msg(level, text) == [level |-> level, text |-> text]

\* no stage failed, no exception
NoStage == "None"
NoException == "None"

\* the locals and the page of a script run that has not reached any stage
StartRun ==
    /\ failed_stage' = NoStage
    /\ uncaught' = NoException
    /\ source_point' = None
    /\ feature_query' = None
    /\ services' = <<>>
    /\ service_coords' = <<>>
    /\ service_names' = <<>>
    /\ nearest_coord' = None
    /\ nearest_name' = ""
    /\ ors_requests' = <<>>
    /\ ors_response' = None
    /\ route_coords' = <<>>
    /\ duration_sec' = None
    /\ distance_m' = None
    /\ map' = None
    /\ route_info' = None
    /\ call_attempts' = 0
    /\ call_requests' = 0
    /\ calls_placed' = 0

\* lines 28-32 and 169-176: the configuration is read from the environment,
\* the page shows the pre-filled location and the first category
Init ==
    /\ TWILIO_ACCOUNT_SID \in BOOLEAN
    /\ TWILIO_AUTH_TOKEN \in BOOLEAN
    /\ TWILIO_PHONE_NUMBER \in BOOLEAN
    /\ VERIFIED_RECIPIENT_NUMBER \in BOOLEAN
    /\ ORS_API_KEY \in BOOLEAN
    /\ pc = "Idle"
    /\ source_name = "RV College of Engineering"
    /\ emergency_type = "Medical"
    /\ ui = <<>>
    /\ failed_stage = NoStage
    /\ uncaught = NoException
    /\ source_point = None
    /\ feature_query = None
    /\ services = <<>>
    /\ service_coords = <<>>
    /\ service_names = <<>>
    /\ nearest_coord = None
    /\ nearest_name = ""
    /\ ors_requests = <<>>
    /\ ors_response = None
    /\ route_coords = <<>>
    /\ duration_sec = None
    /\ distance_m = None
    /\ map = None
    /\ route_info = None
    /\ call_attempts = 0
    /\ call_requests = 0
    /\ calls_placed = 0

\* ----------------------------------------------------------------- actions
\* lines 175-183: the button is pressed with the widgets' values; the script
\* reruns on a cleared page.  An empty location only draws a warning.
Submit ==
    /\ pc \in {"Idle", "Done", "Failed"}
    /\ \E name \in SourceNames, type \in Categories :
          /\ source_name' = name
          /\ emergency_type' = type
          /\ IF name # ""
             THEN /\ pc' = "Geocoding"
                  /\ ui' = <<>>
             ELSE /\ pc' = "Idle"
                  /\ ui' = <<Msg("warning", "Please enter your location.")>>
    /\ StartRun
    /\ UNCHANGED config

\* Geocode whose except branch reports the error and does not return
Geocode_noreturn ==
    /\ pc = "Geocoding"
    /\ \/ \E point \in Origins :
             /\ source_point' = point
             /\ pc' = "Locating"
             /\ UNCHANGED <<failed_stage, ui>>
       \/ /\ ui' = Append(ui, Msg("error", "Could not find location"))
          /\ pc' = "Locating"
          /\ UNCHANGED <<failed_stage, source_point>>
    /\ UNCHANGED <<config, uncaught, widgets, locate_vars, route_vars,
                   render_vars, call_vars>>

\* lines 91-96: ox.geocode(source_name + ", Bangalore, India") answers with
\* a coordinate, or throws and the handler reports it and returns
Geocode ==
    /\ pc = "Geocoding"
    /\ \/ \E point \in Origins :
             /\ source_point' = point
             /\ pc' = "Locating"
             /\ UNCHANGED <<failed_stage, ui>>
       \/ /\ ui' = Append(ui, Msg("error", "Could not find location"))
          /\ pc' = "Failed"
          /\ failed_stage' = "Geocoding"
          /\ UNCHANGED source_point
    /\ UNCHANGED <<config, uncaught, widgets, locate_vars, route_vars,
                   render_vars, call_vars>>

\* the request of line 99
FeatureQuery(point, type) ==
    [point |-> point, tags |-> tag_mapping[type], dist |-> SearchRadius]

\* line 99, the feature query throws: nothing catches it
LocateThrows ==
    /\ pc = "Locating"
    /\ feature_query' = <<FeatureQuery(source_point, emergency_type)>>
    /\ pc' = "Failed"
    /\ failed_stage' = "Locating"
    /\ uncaught' = "QueryError"
    /\ UNCHANGED <<config, widgets, source_point, services, service_coords,
                   service_names, nearest_coord, nearest_name, route_vars,
                   render_vars, ui, call_vars>>

\* LocateReturns without the services.empty check of lines 101-103
LocateReturns_noemptycheck(result) ==
    /\ pc = "Locating"
    /\ feature_query' = <<FeatureQuery(source_point, emergency_type)>>
    /\ services' = result
    /\ LET lists == iterrows(result, 1, emergency_type,
                             [service_coords |-> <<>>, service_names |-> <<>>])
           min_idx == min_idx_of(source_point, lists.service_coords)
       IN  /\ service_coords' = lists.service_coords
           /\ service_names' = lists.service_names
           /\ IF min_idx = 0
              THEN /\ pc' = "Failed"
                   /\ failed_stage' = "Locating"
                   /\ uncaught' = "ValueError"
                   /\ UNCHANGED <<nearest_coord, nearest_name, ui>>
              ELSE /\ nearest_coord' = lists.service_coords[min_idx]
                   /\ nearest_name' = lists.service_names[min_idx]
                   /\ ui' = Append(ui, Msg("success", "Found nearest service"))
                   /\ pc' = "Routing"
                   /\ UNCHANGED <<failed_stage, uncaught>>
    /\ UNCHANGED <<config, widgets, source_point, route_vars, render_vars,
                   call_vars>>

\* lines 99-124, the feature query returns the frame result
LocateReturns(result) ==
    /\ pc = "Locating"
    /\ feature_query' = <<FeatureQuery(source_point, emergency_type)>>
    /\ services' = result
    /\ IF Len(result) = 0
       THEN \* services.empty
            /\ ui' = Append(ui, Msg("error", "No services found within 5km."))
            /\ pc' = "Failed"
            /\ failed_stage' = "Locating"
            /\ UNCHANGED <<uncaught, service_coords, service_names,
                           nearest_coord, nearest_name>>
       ELSE LET lists == iterrows(result, 1, emergency_type,
                                  [service_coords |-> <<>>, service_names |-> <<>>])
                min_idx == min_idx_of(source_point, lists.service_coords)
            IN  /\ service_coords' = lists.service_coords
                /\ service_names' = lists.service_names
                /\ IF min_idx = 0
                   THEN \* min() of an empty list
                        /\ pc' = "Failed"
                        /\ failed_stage' = "Locating"
                        /\ uncaught' = "ValueError"
                        /\ UNCHANGED <<nearest_coord, nearest_name, ui>>
                   ELSE /\ nearest_coord' = lists.service_coords[min_idx]
                        /\ nearest_name' = lists.service_names[min_idx]
                        /\ ui' = Append(ui, Msg("success", "Found nearest service"))
                        /\ pc' = "Routing"
                        /\ UNCHANGED <<failed_stage, uncaught>>
    /\ UNCHANGED <<config, widgets, source_point, route_vars, render_vars,
                   call_vars>>

Locate ==
    \/ LocateThrows
    \/ /\ pc = "Locating"
       /\ \E result \in SeqsUpTo(Rows, MaxRunFeatures) : LocateReturns(result)

\* RouteWith going on to the call when no route came back
RouteWith_callanyway(resp) ==
    /\ pc = "Routing"
    /\ LET r == get_ors_route_coords(source_point, nearest_coord, ORS_API_KEY, resp)
       IN  /\ route_coords' = r.route_coords
           /\ duration_sec' = r.duration_sec
           /\ distance_m' = r.distance_m
           /\ ors_requests' = ors_requests \o r.requests
           /\ ors_response' = IF Len(r.requests) = 0 THEN None ELSE <<resp>>
           /\ ui' = ui \o r.ui
           /\ IF Len(r.route_coords) = 0
              THEN pc' = "Alerting"
              ELSE pc' = "Rendering"
           /\ UNCHANGED failed_stage
    /\ UNCHANGED <<config, uncaught, widgets, source_point, locate_vars,
                   render_vars, call_vars>>

\* lines 126-132 with the routing service answering resp
RouteWith(resp) ==
    /\ pc = "Routing"
    /\ LET r == get_ors_route_coords(source_point, nearest_coord, ORS_API_KEY, resp)
       IN  /\ route_coords' = r.route_coords
           /\ duration_sec' = r.duration_sec
           /\ distance_m' = r.distance_m
           /\ ors_requests' = ors_requests \o r.requests
           /\ ors_response' = IF Len(r.requests) = 0 THEN None ELSE <<resp>>
           /\ ui' = ui \o r.ui
           /\ IF Len(r.route_coords) = 0
              THEN /\ pc' = "Failed"
                   /\ failed_stage' = "Routing"
              ELSE /\ pc' = "Rendering"
                   /\ UNCHANGED failed_stage
    /\ UNCHANGED <<config, uncaught, widgets, source_point, locate_vars,
                   render_vars, call_vars>>

Route ==
    /\ pc = "Routing"
    /\ \E resp \in OrsResponses(MaxRunRoute) : RouteWith(resp)

\* round(num / den, 2), in hundredths
Round2(num, den) == (num * 200 + den) \div (2 * den)

\* lines 134-161: the map with its two markers and the route, shown by
\* st_folium, and the route information block
Render ==
    /\ pc = "Rendering"
    /\ map' = <<[location |-> source_point,
               markers  |-> <<[at |-> source_point, popup |-> "Your Location",
                               icon |-> "user"],
                              [at |-> nearest_coord, popup |-> nearest_name,
                               icon |-> icon_map[emergency_type]]>>,
               polyline |-> route_coords]>>
    /\ route_info' = <<[nearest_name |-> nearest_name,
                      distance_km  |-> Round2(distance_m[1], 1000),
                      duration_min |-> Round2(duration_sec[1], 60)]>>
    /\ pc' = "Alerting"
    /\ UNCHANGED <<config, failed_stage, uncaught, widgets, source_point,
                   locate_vars, route_vars, ui, call_vars>>

\* line 164 with the telephony service accepting the call or throwing
Alert ==
    /\ pc = "Alerting"
    /\ \E twilio_throws \in BOOLEAN :
          LET cred == [sid |-> TWILIO_ACCOUNT_SID, token |-> TWILIO_AUTH_TOKEN,
                       from |-> TWILIO_PHONE_NUMBER, to |-> VERIFIED_RECIPIENT_NUMBER]
              c == make_emergency_call(cred, twilio_throws)
          IN  /\ call_attempts' = call_attempts + 1
              /\ call_requests' = call_requests + c.requests
              /\ calls_placed' = calls_placed + c.placed
              /\ ui' = ui \o c.ui
              /\ IF c.raised
                 THEN /\ pc' = "Failed"
                      /\ failed_stage' = "Alerting"
                      /\ uncaught' = "TwilioError"
                 ELSE /\ pc' = "Done"
                      /\ UNCHANGED <<failed_stage, uncaught>>
    /\ UNCHANGED <<config, widgets, source_point, locate_vars, route_vars,
                   render_vars>>

Next == Submit \/ Geocode \/ Locate \/ Route \/ Render \/ Alert

Spec == Init /\ [][Next]_vars

\* ------------------------------------------- function-level specifications
\* a configuration with every credential set
Configured ==
    /\ TWILIO_ACCOUNT_SID = TRUE
    /\ TWILIO_AUTH_TOKEN = TRUE
    /\ TWILIO_PHONE_NUMBER = TRUE
    /\ VERIFIED_RECIPIENT_NUMBER = TRUE

\* the run right after geocoding succeeded (line 93), at any origin and
\* category
InitLocate ==
    /\ Configured
    /\ ORS_API_KEY = TRUE
    /\ pc = "Locating"
    /\ source_name = "RV College of Engineering"
    /\ emergency_type \in Categories
    /\ source_point \in Origins
    /\ ui = <<>>
    /\ failed_stage = NoStage
    /\ uncaught = NoException
    /\ feature_query = None
    /\ services = <<>>
    /\ service_coords = <<>>
    /\ service_names = <<>>
    /\ nearest_coord = None
    /\ nearest_name = ""
    /\ ors_requests = <<>>
    /\ ors_response = None
    /\ route_coords = <<>>
    /\ duration_sec = None
    /\ distance_m = None
    /\ map = None
    /\ route_info = None
    /\ call_attempts = 0
    /\ call_requests = 0
    /\ calls_placed = 0

\* lines 99-124 on every result set of up to MaxFeatures features
LocateAny ==
    \/ LocateThrows
    \/ /\ pc = "Locating"
       /\ \E result \in SeqsUpTo(Rows, MaxFeatures) : LocateReturns(result)

NextLocate == LocateAny

SpecLocate == InitLocate /\ [][NextLocate]_vars

\* the run right after a facility was selected (line 124): the result set
\* held the one facility row
InitRoute ==
    /\ Configured
    /\ ORS_API_KEY \in BOOLEAN
    /\ pc = "Routing"
    /\ source_name = "RV College of Engineering"
    /\ emergency_type \in Categories
    /\ source_point \in Origins
    /\ feature_query = <<FeatureQuery(source_point, emergency_type)>>
    /\ \E row \in Rows :
          LET lists == iterrows(<<row>>, 1, emergency_type,
                                [service_coords |-> <<>>, service_names |-> <<>>])
          IN  /\ Len(lists.service_coords) = 1
              /\ services = <<row>>
              /\ service_coords = lists.service_coords
              /\ service_names = lists.service_names
              /\ nearest_coord = lists.service_coords[1]
              /\ nearest_name = lists.service_names[1]
    /\ ui = <<Msg("success", "Found nearest service")>>
    /\ failed_stage = NoStage
    /\ uncaught = NoException
    /\ ors_requests = <<>>
    /\ ors_response = None
    /\ route_coords = <<>>
    /\ duration_sec = None
    /\ distance_m = None
    /\ map = None
    /\ route_info = None
    /\ call_attempts = 0
    /\ call_requests = 0
    /\ calls_placed = 0

\* lines 126-132 on every upstream polyline of up to MaxRoute points
RouteAny ==
    /\ pc = "Routing"
    /\ \E resp \in OrsResponses(MaxRoute) : RouteWith(resp)

NextRoute == RouteAny

SpecRoute == InitRoute /\ [][NextRoute]_vars

\* ------------------------------------------------------------------ claims
\* a feature with a representative point, and that point as <<lat, lon>>
Eligible(row) == row.geom_type \in {"Point", "Polygon", "MultiPolygon"}
RepresentativePoint(row) == <<row.y, row.x>>
DistanceTo(row) == geodesic(source_point, RepresentativePoint(row))
Located == feature_query # None /\ uncaught # "QueryError"
AllTwilio ==
    /\ TWILIO_ACCOUNT_SID
    /\ TWILIO_AUTH_TOKEN
    /\ TWILIO_PHONE_NUMBER
    /\ VERIFIED_RECIPIENT_NUMBER
Levels(messages) == {messages[k].level : k \in 1..Len(messages)}

\* C1: whenever the result set holds a facility with a representative point
\* (Point, or Polygon/MultiPolygon by its centroid), a facility is selected;
\* the selected one is a facility of the result set at minimum distance to
\* the origin among those with a representative point, the first such in
\* result-set order, never a feature of another geometry type, and the name
\* reported is the name cell of that same row.
C1_NearestFirst ==
    (Located /\ \E i \in 1..Len(services) : Eligible(services[i])) =>
        /\ uncaught = NoException
        /\ failed_stage # "Locating"
        /\ \E i \in 1..Len(services) :
              /\ Eligible(services[i])
              /\ nearest_coord = RepresentativePoint(services[i])
              /\ \A j \in 1..Len(services) :
                    Eligible(services[j]) =>
                        DistanceTo(services[j]) >= DistanceTo(services[i])
              /\ \A j \in 1..(i - 1) :
                    Eligible(services[j]) =>
                        DistanceTo(services[j]) > DistanceTo(services[i])
              /\ services[i].name # NaN => nearest_name = services[i].name
              /\ services[i].name = NaN =>
                    nearest_name \in {NaN, UnnamedLabel(emergency_type)}

\* C1 witness: a skipped feature lies nearest, two facilities (at the same
\* coordinates) tie for the minimum behind it, and the first was selected
C1_Witness ==
    /\ pc = "Routing"
    /\ Len(services) = 3
    /\ services[1].geom_type = "LineString"
    /\ DistanceTo(services[1]) < DistanceTo(services[2])
    /\ services[2].geom_type = "Polygon"
    /\ services[3].geom_type = "Point"
    /\ DistanceTo(services[2]) = DistanceTo(services[3])
    /\ services[2].name = "Apollo"
    /\ services[3].name = NaN
    /\ nearest_name = "Apollo"
    /\ nearest_coord = RepresentativePoint(services[2])

\* C2: the stage changes only along Geocoding, Locating, Routing, Rendering,
\* Alerting, Done, each entered from its predecessor and only with the
\* predecessor's result in hand; a failure in Geocoding, Locating or Routing
\* leads to Failed at that stage, and Failed (like Done and Idle) is left
\* only by a new submission, which starts again at Geocoding.
C2_StageOrder ==
    [][pc' # pc =>
        \/ /\ pc \in {"Idle", "Done", "Failed"}
           /\ pc' \in {"Geocoding", "Idle"}
           /\ failed_stage' = NoStage
           /\ ui' \in {<<>>, <<Msg("warning", "Please enter your location.")>>}
        \/ pc = "Geocoding" /\ pc' = "Locating" /\ source_point' # None
        \/ pc = "Locating" /\ pc' = "Routing" /\ nearest_coord' # None
        \/ pc = "Routing" /\ pc' = "Rendering" /\ route_coords' # <<>>
        \/ pc = "Rendering" /\ pc' = "Alerting" /\ map' # None
        \/ pc = "Alerting" /\ pc' = "Done"
        \/ /\ pc \in {"Geocoding", "Locating", "Routing"}
           /\ pc' = "Failed"
           /\ failed_stage' = pc
           /\ map' = None
           /\ call_attempts' = 0
      ]_vars

\* C2 witness: a run that went through every stage
C2_Witness ==
    /\ pc = "Done"
    /\ source_point # None
    /\ nearest_coord # None
    /\ route_coords # <<>>
    /\ map # None
    /\ call_attempts = 1

\* C3: make_emergency_call has been invoked only in a run whose map is
\* rendered; a run that failed in Geocoding, Locating or Routing has
\* invoked it not at all and placed no call.
C3_CallAfterMap ==
    /\ call_attempts > 0 => map # None /\ route_info # None
    /\ pc = "Failed" =>
          /\ call_attempts = 0
          /\ call_requests = 0
          /\ calls_placed = 0
          /\ map = None

\* C3 witness: the routing service threw after a facility was found
C3_Witness ==
    /\ pc = "Failed"
    /\ failed_stage = "Routing"
    /\ nearest_coord # None
    /\ ors_response # None
    /\ ors_response[1].throws
    /\ call_attempts = 0

\* C4: when the feature query (radius 5000 m) returned no facility, the run
\* is Failed in Locating with the not-found error, nothing is selected, the
\* routing service is not contacted, no map is shown and no call is placed.
C4_EmptyNotFound ==
    (Located /\ Len(services) = 0) =>
        /\ feature_query[1].dist = 5000
        /\ feature_query[1].tags = tag_mapping[emergency_type]
        /\ pc = "Failed"
        /\ failed_stage = "Locating"
        /\ uncaught = NoException
        /\ ui = <<Msg("error", "No services found within 5km.")>>
        /\ service_coords = <<>>
        /\ nearest_coord = None
        /\ nearest_name = ""
        /\ ors_requests = <<>>
        /\ map = None
        /\ route_info = None
        /\ call_attempts = 0
        /\ calls_placed = 0

\* C4 witness: a Fire query that came back empty
C4_Witness ==
    /\ Located
    /\ emergency_type = "Fire"
    /\ Len(services) = 0
    /\ pc = "Failed"

\* C5: no exception ever leaves find_and_map_route: every failure is caught
\* and reported.
C5_AllCaught == uncaught = NoException

\* C6: with the routing api key absent, no request reaches the routing
\* service, the route stays empty, the run never gets to Rendering,
\* Alerting or Done, no map is shown, no call is placed, and a run that
\* reached Routing is Failed there with the key error.
C6_NoKeyFails ==
    ~ORS_API_KEY =>
        /\ ors_requests = <<>>
        /\ ors_response = None
        /\ route_coords = <<>>
        /\ pc \notin {"Rendering", "Alerting", "Done"}
        /\ map = None
        /\ call_attempts = 0
        /\ calls_placed = 0
        /\ (nearest_coord # None /\ pc # "Routing") =>
              /\ pc = "Failed"
              /\ failed_stage = "Routing"
              /\ ui[Len(ui)] = Msg("error", "ORS key not configured")

\* C6 witness: a facility was found and the run failed for the missing key
C6_Witness ==
    /\ ~ORS_API_KEY
    /\ nearest_coord # None
    /\ pc = "Failed"
    /\ failed_stage = "Routing"

\* C7: when a telephony credential is absent, an invocation of
\* make_emergency_call sends nothing to the telephony service, places no
\* call, raises nothing, emits a warning and no error, and the run is Done.
C7_MissingCredSkips ==
    (call_attempts > 0 /\ ~AllTwilio) =>
        /\ pc = "Done"
        /\ uncaught = NoException
        /\ failed_stage = NoStage
        /\ call_requests = 0
        /\ calls_placed = 0
        /\ ui[Len(ui)].level = "warning"
        /\ "error" \notin Levels(ui)

\* C7 witness: only the recipient number is missing
C7_Witness ==
    /\ call_attempts = 1
    /\ TWILIO_ACCOUNT_SID
    /\ TWILIO_AUTH_TOKEN
    /\ TWILIO_PHONE_NUMBER
    /\ ~VERIFIED_RECIPIENT_NUMBER
    /\ pc = "Done"

\* C8: with the four credentials present, a call request that the telephony
\* service does not accept ends the Alerting stage in Done, not Failed, with
\* nothing raised, the error and the hint reported, and the map and the
\* route information unchanged.
C8_CallFailureCaught ==
    [][(/\ pc = "Alerting"
        /\ AllTwilio
        /\ call_requests' = call_requests + 1
        /\ calls_placed' = calls_placed) =>
           /\ pc' = "Done"
           /\ uncaught' = NoException
           /\ failed_stage' = NoStage
           /\ map' = map /\ map # None
           /\ route_info' = route_info /\ route_info # None
           /\ ui' = ui \o <<Msg("error", "Twilio Call Exception"),
                             Msg("warning", "Please check your Twilio credentials")>>
      ]_vars

\* C8 witness: a run that is Done after a refused call
C8_Witness ==
    /\ pc = "Done"
    /\ AllTwilio
    /\ call_requests = 1
    /\ calls_placed = 0
    /\ "error" \in Levels(ui)

\* C9: every request to the routing service carries the origin and then the
\* destination, each as <<lon, lat>>; and a polyline the service returned
\* comes back with the same length and order, each pair swapped to
\* <<lat, lon>>.
C9_CoordinateOrder ==
    /\ \A r \in 1..Len(ors_requests) :
          /\ Len(ors_requests[r].coordinates) = 2
          /\ ors_requests[r].coordinates[1][1] = source_point[2]
          /\ ors_requests[r].coordinates[1][2] = source_point[1]
          /\ ors_requests[r].coordinates[2][1] = nearest_coord[2]
          /\ ors_requests[r].coordinates[2][2] = nearest_coord[1]
    /\ (ors_response # None /\ ~ors_response[1].throws) =>
          LET upstream == ors_response[1].coordinates
          IN  /\ Len(route_coords) = Len(upstream)
              /\ \A k \in 1..Len(upstream) :
                    /\ route_coords[k][1] = upstream[k][2]
                    /\ route_coords[k][2] = upstream[k][1]

\* C9 witness: a three-point polyline with two different points came back
C9_Witness ==
    /\ pc = "Rendering"
    /\ Len(ors_requests) = 1
    /\ Len(route_coords) = 3
    /\ route_coords[1] = <<0, 5>>
    /\ route_coords[2] = <<2, 6>>
    /\ ors_response[1].coordinates[1] = <<5, 0>>

\* C10: every facility taken from the result set carries its own name when
\* it has one and the label "Unnamed <category>" when it has none.
C10_UnnamedLabel ==
    Located =>
        LET taken == SelectSeq(services, Eligible)
        IN  \A k \in 1..Len(service_names) :
               service_names[k] =
                   IF taken[k].name = NaN THEN UnnamedLabel(emergency_type)
                   ELSE taken[k].name

====
